---- MODULE Spec2Model ----
(***************************************************************************)
(* A model of the log-structured key-value store of kv/src/kv.rs          *)
(* (KvStore: open, recover, set, get, remove, compact) and of the `get`   *)
(* command of kv/src/bin/kvs.rs.                                           *)
(*                                                                         *)
(* A segment file is the sequence of the command records appended to it;  *)
(* a record occupies as many bytes as serde_json writes for it, and a      *)
(* byte range of a file decodes to a record only when it starts where a   *)
(* record starts and has that record's length.                             *)
(***************************************************************************)
EXTENDS Integers, Sequences, FiniteSets, TLC

\* ------------------------------------------------------------------ bounds

\* Number of engine operations in one run.
MaxOps == 5

\* Number of operations in one run of the specification with I/O failures.
MaxOpsIO == 3

\* Number of operations in one run of the specification with cut segments.
MaxOpsCut == 5

\* ------------------------------------------------------- program constants

COMPACTION_THRESHOLD == 1024 * 1024

\* Bytes of {"Set":{"key":"","value":""}} and of {"Remove":{"key":""}}.
SetOverhead == 29
RemoveOverhead == 21

\* ------------------------------------------------------------ the strings

\* A value is a character repeated n times.
Str(ch, n) == [ch |-> ch, n |-> n]

Keys == {"a", "b"}

\* "1", and the value whose Set record under a one-byte key has exactly
\* COMPACTION_THRESHOLD bytes.
Small == Str("1", 1)
Large == Str("x", COMPACTION_THRESHOLD - SetOverhead - 1)
Values == {Small, Large}

\* Option<String>
None == <<>>
Some(v) == <<v>>

\* ------------------------------------------------------------ the records

SetCmd(k, v) == [cmd |-> "Set", key |-> k, value |-> v]
RemoveCmd(k) == [cmd |-> "Remove", key |-> k, value |-> Str("", 0)]
\* Bytes that end before a record is complete (copied from a range that is
\* not one record).
RawBytes(n) == [cmd |-> "Raw", key |-> "", value |-> Str("", n)]

\* serde_json writes '"' and '\' as two bytes, every other character of the
\* model as one.
EscLen(ch) == IF ch \in {"\"", "\\"} THEN 2 ELSE 1
KeyBytes(k) == Len(k)
ValueBytes(v) == v.n * EscLen(v.ch)

\* Bytes serde_json::to_writer writes for a command.
EncLen(c) ==
    CASE c.cmd = "Set" -> SetOverhead + KeyBytes(c.key) + ValueBytes(c.value)
      [] c.cmd = "Remove" -> RemoveOverhead + KeyBytes(c.key)
      [] OTHER -> c.value.n

RECURSIVE FileLen(_)
FileLen(f) == IF f = <<>> THEN 0 ELSE EncLen(Head(f)) + FileLen(Tail(f))

\* Offset of the i-th record of a file.
StartOf(f, i) == FileLen(SubSeq(f, 1, i - 1))

\* The records of f that start at pos and are len bytes long.
RecordsAt(f, pos, len) ==
    {i \in 1..Len(f) : StartOf(f, i) = pos /\ EncLen(f[i]) = len /\ f[i].cmd # "Raw"}

\* reader.take(len) read from pos: the bytes of f in [pos, pos+len), as
\* records: one record when the range is exactly a record, raw bytes
\* (as many as the file has) otherwise.
TakeAt(f, pos, len) ==
    IF RecordsAt(f, pos, len) # {}
    THEN <<f[CHOOSE i \in RecordsAt(f, pos, len) : TRUE]>>
    ELSE LET have == IF FileLen(f) > pos THEN FileLen(f) - pos ELSE 0
             n == IF have < len THEN have ELSE len
         IN IF n = 0 THEN <<>> ELSE <<RawBytes(n)>>

\* ------------------------------------------------------------- the state

VARIABLES
    disk,      \* the directory: segment id -> the records of <id>.log
    store,     \* the KvStore: current_id, index, readers, curren_writer, uncompacted
    kv,        \* the abstract map of the successful set and remove operations
    created,   \* the segment creations of the directory's lifetime, in order:
               \* the id given to new_log_file, and the number and the kind
               \* of the operation that gave it
    nops,      \* operations so far
    ret,       \* the last operation and what it returned
    cli        \* what the last kvs process printed and its exit code

vars == <<disk, store, kv, created, nops, ret, cli>>

CommandPos(file_id, pos, len) == [file_id |-> file_id, pos |-> pos, len |-> len]

\* Faulty variant: the end offset taken for the length.
RecordLen_EndOffset(pos, new_pos) == new_pos

\* The length of a record from the writer's or decoder's position before
\* and after it.
RecordLen(pos, new_pos) == new_pos - pos

\* HashMap::insert and HashMap::remove
MapInsert(m, k, v) == [x \in DOMAIN m \cup {k} |-> IF x = k THEN v ELSE m[x]]
MapRemove(m, k) == [x \in DOMAIN m \ {k} |-> m[x]]
MapRemoveAll(m, ks) == [x \in DOMAIN m \ ks |-> m[x]]
EmptyMap == [x \in {} |-> 0]

\* ------------------------------------------------------------ the engine

\* BufReaderWithPos::new and BufWriterWithPos::new: pos is the offset of the
\* handle just opened, which is 0 (also in append mode, before the first
\* write).
NewReader == [pos |-> 0]
NewWriter(id) == [file |-> id, pos |-> 0]

\* OpenOptions::new().create(true).write(true).append(true).open(path):
\* the file is created when absent and kept as it is otherwise.
CreateFile(d, id) == IF id \in DOMAIN d THEN d ELSE MapInsert(d, id, <<>>)

\* Faulty variant: the reader of the new segment is not registered.
new_log_file_NoReader(d, key, readers) ==
    [disk    |-> CreateFile(d, key),
     writer  |-> NewWriter(key),
     readers |-> readers,
     made    |-> <<key>>]

\* KvStore::new_log_file
new_log_file(d, key, readers) ==
    [disk    |-> CreateFile(d, key),
     writer  |-> NewWriter(key),
     readers |-> MapInsert(readers, key, NewReader),
     made    |-> <<key>>]

\* Faulty variant: the ids in descending order.
RECURSIVE SortedIds_Descending(_)
SortedIds_Descending(S) ==
    IF S = {} THEN <<>>
    ELSE LET m == CHOOSE x \in S : \A y \in S : x >= y
         IN <<m>> \o SortedIds_Descending(S \ {m})

\* Vec::sort_unstable of the ids found in the directory.
RECURSIVE SortedIds(_)
SortedIds(S) ==
    IF S = {} THEN <<>>
    ELSE LET m == CHOOSE x \in S : \A y \in S : x <= y
         IN <<m>> \o SortedIds(S \ {m})

\* KvStore::generate_id
generate_id(d) == SortedIds(DOMAIN d)

\* KvStore::recover, from the i-th record of file f, which starts at pos.
RECURSIVE RecoverFrom(_, _, _, _, _, _)
RecoverFrom(id, f, i, pos, index, uncompacted) ==
    IF i > Len(f) THEN [index |-> index, uncompacted |-> uncompacted, res |-> "Ok"]
    ELSE LET cmd == f[i]
             new_pos == pos + EncLen(cmd)
         IN CASE cmd.cmd = "Set" ->
                   RecoverFrom(id, f, i + 1, new_pos,
                       MapInsert(index, cmd.key, CommandPos(id, pos, RecordLen(pos, new_pos))),
                       IF cmd.key \in DOMAIN index
                       THEN uncompacted + index[cmd.key].len
                       ELSE uncompacted)
              [] cmd.cmd = "Remove" ->
                   RecoverFrom(id, f, i + 1, new_pos,
                       MapRemove(index, cmd.key),
                       (IF cmd.key \in DOMAIN index
                        THEN uncompacted + index[cmd.key].len
                        ELSE uncompacted) + RecordLen(pos, new_pos))
              [] OTHER ->
                   [index |-> index, uncompacted |-> uncompacted, res |-> "Serde"]

\* Faulty variant: a record that does not decode ends the recovery of the
\* segment as the end of the file does.
recover_DropBad(id, f, index) ==
    [RecoverFrom(id, f, 1, 0, index, 0) EXCEPT !.res = "Ok"]

recover(id, f, index) == RecoverFrom(id, f, 1, 0, index, 0)

\* Faulty variant: each segment's count replaces the sum so far.
RECURSIVE RecoverAll_Overwrite(_, _, _)
RecoverAll_Overwrite(d, id_list, acc) ==
    IF id_list = <<>> \/ acc.res # "Ok" THEN acc
    ELSE LET id == Head(id_list)
             r == recover(id, d[id], acc.index)
         IN RecoverAll_Overwrite(d, Tail(id_list),
                [index       |-> r.index,
                 uncompacted |-> r.uncompacted,
                 readers     |-> MapInsert(acc.readers, id, [pos |-> FileLen(d[id])]),
                 res         |-> r.res])

\* The loop of KvStore::open over id_list.
RECURSIVE RecoverAll(_, _, _)
RecoverAll(d, id_list, acc) ==
    IF id_list = <<>> \/ acc.res # "Ok" THEN acc
    ELSE LET id == Head(id_list)
             r == recover(id, d[id], acc.index)
         IN RecoverAll(d, Tail(id_list),
                [index       |-> r.index,
                 uncompacted |-> acc.uncompacted + r.uncompacted,
                 readers     |-> MapInsert(acc.readers, id, [pos |-> FileLen(d[id])]),
                 res         |-> r.res])

\* The id KvStore::open gives the new active segment.
OpenId(id_list) == (IF id_list = <<>> THEN 0 ELSE id_list[Len(id_list)]) + 1

\* KvStore::open on directory d.
open(d) ==
    LET id_list == generate_id(d)
        rec == RecoverAll(d, id_list,
                   [index |-> EmptyMap, uncompacted |-> 0, readers |-> EmptyMap,
                    res |-> "Ok"])
        current_id == OpenId(id_list)
        n == new_log_file(d, current_id, rec.readers)
    IN IF rec.res # "Ok"
       THEN [disk |-> d, res |-> rec.res, made |-> <<>>,
             store |-> [current_id |-> 0, index |-> EmptyMap, readers |-> EmptyMap,
                        curren_writer |-> NewWriter(0), uncompacted |-> 0]]
       ELSE [disk |-> n.disk, res |-> "Ok", made |-> n.made,
             store |-> [current_id    |-> current_id,
                        index         |-> rec.index,
                        readers       |-> n.readers,
                        curren_writer |-> n.writer,
                        uncompacted   |-> rec.uncompacted]]

\* The file a reader reads (a handle outlives the deletion of its file; the
\* model never reads a deleted file's bytes).
FileOf(d, id) == IF id \in DOMAIN d THEN d[id] ELSE <<>>

\* Faulty variant: the copy reads on from wherever the reader stands.
CopyStart_NoSeek(reader, cmd_pos) == reader.pos

\* Where the copy of an entry starts reading: compact seeks the reader to
\* the entry's offset unless it already stands there.
CopyStart(reader, cmd_pos) ==
    IF reader.pos # cmd_pos.pos THEN cmd_pos.pos ELSE reader.pos

\* The copy loop of KvStore::compact over the keys in `order`, the order in
\* which index.values_mut() yields them.
RECURSIVE CopyEntries(_, _, _)
CopyEntries(st, order, compaction_id) ==
    IF order = <<>> \/ st.res # "Ok" THEN st
    ELSE LET k == Head(order)
             cmd_pos == st.index[k]
         IN IF cmd_pos.file_id \notin DOMAIN st.readers
            THEN [st EXCEPT !.res = "panic"]
            ELSE LET reader == st.readers[cmd_pos.file_id]
                     start == CopyStart(reader, cmd_pos)
                     bytes == TakeAt(FileOf(st.disk, cmd_pos.file_id), start, cmd_pos.len)
                     len == FileLen(bytes)
                 IN CopyEntries(
                        [disk    |-> [st.disk EXCEPT ![compaction_id] = @ \o bytes],
                         index   |-> [st.index EXCEPT ![k] =
                                         CommandPos(compaction_id, st.new_pos, len)],
                         readers |-> [st.readers EXCEPT ![cmd_pos.file_id] =
                                         [pos |-> start + len]],
                         new_pos |-> st.new_pos + len,
                         res     |-> "Ok"],
                        Tail(order), compaction_id)

\* Faulty variant: the compaction segment gets an id above the new active one.
CompactionId_Above(current_id) == current_id + 3

\* Faulty variant: the compaction segment takes the id of the active segment.
CompactionId_Reused(current_id) == current_id

\* The ids KvStore::compact gives the compaction segment and the new active
\* segment.
CompactionId(current_id) == current_id + 1
NextActiveId(current_id) == current_id + 2

\* Faulty variant: the segment that was active is kept.
StaleFiles_KeepActive(readers, compaction_id) ==
    {id \in DOMAIN readers : id < compaction_id - 1}

\* Faulty variant: the compaction segment is deleted with the stale ones.
StaleFiles_Inclusive(readers, compaction_id) ==
    {id \in DOMAIN readers : id <= compaction_id}

\* The readers KvStore::compact drops and whose files it deletes.
StaleFiles(readers, compaction_id) == {id \in DOMAIN readers : id < compaction_id}

\* KvStore::compact. `order` is the iteration order of the index; `fail` is
\* the step whose I/O fails ("none": no step fails).
compact(d, s, order, fail) ==
    LET compaction_id == CompactionId(s.current_id)
        s1 == [s EXCEPT !.current_id = NextActiveId(s.current_id)]
        a == new_log_file(d, s1.current_id, s1.readers)
        s2 == [s1 EXCEPT !.curren_writer = a.writer, !.readers = a.readers]
        c == new_log_file(a.disk, compaction_id, s2.readers)
        todo == IF fail = "copy" THEN SubSeq(order, 1, Len(order) - 1) ELSE order
        copied == CopyEntries([disk |-> c.disk, index |-> s2.index,
                               readers |-> c.readers, new_pos |-> 0, res |-> "Ok"],
                              todo, compaction_id)
        s3 == [s2 EXCEPT !.index = copied.index, !.readers = copied.readers]
        stale == StaleFiles(s3.readers, compaction_id)
    IN CASE fail = "active" ->
              [disk |-> d, store |-> s1, res |-> "Io", made |-> <<>>]
         [] fail = "compaction" ->
              [disk |-> a.disk, store |-> s2, res |-> "Io", made |-> a.made]
         [] copied.res # "Ok" ->
              [disk |-> copied.disk, store |-> s3, res |-> copied.res,
               made |-> a.made \o c.made]
         [] fail = "copy" ->
              [disk |-> copied.disk, store |-> s3, res |-> "Io",
               made |-> a.made \o c.made]
         [] fail = "remove_file" \/ ~(stale \subseteq DOMAIN copied.disk) ->
              [disk |-> copied.disk,
               store |-> [s3 EXCEPT !.readers = MapRemoveAll(@,
                              IF stale = {} THEN {}
                              ELSE {CHOOSE x \in stale : \A y \in stale : x <= y})],
               res |-> "Io", made |-> a.made \o c.made]
         [] OTHER ->
              [disk |-> MapRemoveAll(copied.disk, stale),
               store |-> [s3 EXCEPT !.readers = MapRemoveAll(@, stale),
                                    !.uncompacted = 0],
               res |-> "Ok", made |-> a.made \o c.made]

\* Faulty variant: the write replaces what the file held.
WriteCmd_Truncating(d, writer, cmd) ==
    [disk   |-> IF writer.file \in DOMAIN d
                THEN [d EXCEPT ![writer.file] = <<cmd>>]
                ELSE d,
     writer |-> [writer EXCEPT !.pos = @ + EncLen(cmd)]]

\* BufWriterWithPos::write of one command through the active writer: the
\* bytes are appended to the writer's file and pos advances by their number.
WriteCmd(d, writer, cmd) ==
    [disk   |-> IF writer.file \in DOMAIN d
                THEN [d EXCEPT ![writer.file] = Append(@, cmd)]
                ELSE d,
     writer |-> [writer EXCEPT !.pos = @ + EncLen(cmd)]]

\* Faulty variant: a compaction already at the threshold.
NeedsCompaction_AtThreshold(uncompacted) == uncompacted >= COMPACTION_THRESHOLD

\* Faulty variant: the threshold taken in KiB.
NeedsCompaction_KiB(uncompacted) == uncompacted > COMPACTION_THRESHOLD * 1024

\* The test of KvStore::set that starts a compaction.
NeedsCompaction(uncompacted) == uncompacted > COMPACTION_THRESHOLD

\* KvStore::set
set(d, s, key, value, order, fail) ==
    LET cmd == SetCmd(key, value)
        pos == s.curren_writer.pos
        w == WriteCmd(d, s.curren_writer, cmd)
        s1 == [s EXCEPT
                 !.curren_writer = w.writer,
                 !.index = MapInsert(@, key,
                               CommandPos(s.current_id, pos, RecordLen(pos, w.writer.pos))),
                 !.uncompacted = IF key \in DOMAIN s.index
                                 THEN @ + s.index[key].len ELSE @]
    IN IF fail = "write"
       THEN [disk |-> d, store |-> s, res |-> "Io", made |-> <<>>]
       ELSE IF NeedsCompaction(s1.uncompacted)
            THEN compact(w.disk, s1, order, fail)
            ELSE [disk |-> w.disk, store |-> s1, res |-> "Ok", made |-> <<>>]

\* serde_json::from_reader of the bytes read, matched as KvStore::get does.
Decode(bytes) ==
    IF Len(bytes) = 1 /\ bytes[1].cmd = "Set"
    THEN [res |-> "Ok", value |-> Some(bytes[1].value)]
    ELSE IF Len(bytes) = 1 /\ bytes[1].cmd = "Remove"
         THEN [res |-> "UnexpectedCommandType", value |-> None]
         ELSE [res |-> "Serde", value |-> None]

\* KvStore::get
get(d, s, key, fail) ==
    IF key \notin DOMAIN s.index
    THEN [store |-> s, res |-> "Ok", value |-> None]
    ELSE LET cmd_pos == s.index[key]
         IN IF cmd_pos.file_id \notin DOMAIN s.readers
            THEN [store |-> s, res |-> "panic", value |-> None]
            ELSE IF fail = "read"
                 THEN [store |-> s, res |-> "Io", value |-> None]
                 ELSE LET bytes == TakeAt(FileOf(d, cmd_pos.file_id),
                                          cmd_pos.pos, cmd_pos.len)
                          got == Decode(bytes)
                      IN [store |-> [s EXCEPT !.readers[cmd_pos.file_id] =
                                        [pos |-> cmd_pos.pos + FileLen(bytes)]],
                          res |-> got.res, value |-> got.value]

\* Faulty variant: remove also counts the Remove record it appends.
remove_present_CountsRecord(d, s, key, fail) ==
    LET cmd == RemoveCmd(key)
        w == WriteCmd(d, s.curren_writer, cmd)
    IN IF fail = "write"
       THEN [disk |-> d, store |-> s, res |-> "Io"]
       ELSE [disk |-> w.disk,
             store |-> [s EXCEPT !.curren_writer = w.writer,
                                 !.index = MapRemove(@, key),
                                 !.uncompacted = @ + s.index[key].len + EncLen(cmd)],
             res |-> "Ok"]

\* The branch of KvStore::remove for a key that is in the index.
remove_present(d, s, key, fail) ==
    LET cmd == RemoveCmd(key)
        w == WriteCmd(d, s.curren_writer, cmd)
    IN IF fail = "write"
       THEN [disk |-> d, store |-> s, res |-> "Io"]
       ELSE [disk |-> w.disk,
             store |-> [s EXCEPT !.curren_writer = w.writer,
                                 !.index = MapRemove(@, key),
                                 !.uncompacted = @ + s.index[key].len],
             res |-> "Ok"]

\* Faulty variant: the Remove record is written before the key is looked up.
remove_WriteFirst(d, s, key, fail) ==
    IF key \in DOMAIN s.index
    THEN remove_present(d, s, key, fail)
    ELSE LET w == WriteCmd(d, s.curren_writer, RemoveCmd(key))
         IN [disk |-> w.disk, store |-> [s EXCEPT !.curren_writer = w.writer],
             res |-> "KeyNotFound"]

\* KvStore::remove
remove(d, s, key, fail) ==
    IF key \in DOMAIN s.index
    THEN remove_present(d, s, key, fail)
    ELSE [disk |-> d, store |-> s, res |-> "KeyNotFound"]

\* ------------------------------------------------------------ the actions

\* The orders in which a HashMap over the keys S can be iterated.
Orders(S) ==
    {o \in [1..Cardinality(S) -> S] : \A i, j \in 1..Cardinality(S) : i # j => o[i] # o[j]}

\* No engine: the process that owned it has exited, or open failed.
NoStore ==
    [current_id |-> 0, index |-> EmptyMap, readers |-> EmptyMap,
     curren_writer |-> NewWriter(0), uncompacted |-> 0]

Opened == store.current_id > 0

\* The segment creations `made` by operation number n, which is a `by`.
Stamp(made, n, by) == [i \in 1..Len(made) |-> [id |-> made[i], op |-> n, by |-> by]]

Result(op, key, res, value) == [op |-> op, key |-> key, res |-> res, value |-> value]

NoOutput == [line |-> "", value |-> None, exit |-> 0, get |-> ""]

\* KvStore::open on a fresh, empty directory.
Init ==
    /\ disk = open(EmptyMap).disk
    /\ store = open(EmptyMap).store
    /\ kv = [k \in Keys |-> None]
    /\ created = Stamp(open(EmptyMap).made, 0, "open")
    /\ nops = 0
    /\ ret = Result("open", "", "Ok", None)
    /\ cli = NoOutput

\* store.set(key, value), with the I/O step `fail` failing.
SetOp(key, value, fail) ==
    /\ Opened
    /\ \E order \in Orders(DOMAIN store.index \cup {key}) :
         LET r == set(disk, store, key, value, order, fail)
         IN /\ disk' = r.disk
            /\ store' = r.store
            /\ created' = created \o Stamp(r.made, nops + 1, "set")
            /\ kv' = IF r.res = "Ok" THEN [kv EXCEPT ![key] = Some(value)] ELSE kv
            /\ ret' = Result("set", key, r.res, None)
    /\ nops' = nops + 1
    /\ UNCHANGED cli

\* store.get(key)
GetOp(key, fail) ==
    /\ Opened
    /\ LET r == get(disk, store, key, fail)
       IN /\ store' = r.store
          /\ ret' = Result("get", key, r.res, r.value)
    /\ nops' = nops + 1
    /\ UNCHANGED <<disk, kv, created, cli>>

\* store.remove(key)
RemoveOp(key, fail) ==
    /\ Opened
    /\ LET r == remove(disk, store, key, fail)
       IN /\ disk' = r.disk
          /\ store' = r.store
          /\ kv' = IF r.res = "Ok" THEN [kv EXCEPT ![key] = None] ELSE kv
          /\ ret' = Result("remove", key, r.res, None)
    /\ nops' = nops + 1
    /\ UNCHANGED <<created, cli>>

\* store.compact()
CompactOp(fail) ==
    /\ Opened
    /\ \E order \in Orders(DOMAIN store.index) :
         LET r == compact(disk, store, order, fail)
         IN /\ disk' = r.disk
            /\ store' = r.store
            /\ created' = created \o Stamp(r.made, nops + 1, "compact")
            /\ ret' = Result("compact", "", r.res, None)
    /\ nops' = nops + 1
    /\ UNCHANGED <<kv, cli>>

\* The engine is dropped (every record written is already flushed) and
\* KvStore::open is called on the same directory.
Reopen ==
    /\ LET r == open(disk)
       IN /\ disk' = r.disk
          /\ store' = r.store
          /\ created' = created \o Stamp(r.made, nops + 1, "open")
          /\ ret' = Result("open", "", r.res, None)
    /\ nops' = nops + 1
    /\ UNCHANGED <<kv, cli>>

\* What main prints and returns for `kvs get <key>` given the outcome of
\* KvStore::open and of store.get.
GetOutput(opened, g) ==
    IF opened # "Ok"
    THEN [line |-> "", value |-> None, exit |-> 1, get |-> ""]
    ELSE CASE g.res = "Ok" /\ g.value # None ->
                [line |-> "value", value |-> g.value, exit |-> 0, get |-> g.res]
           [] g.res = "panic" ->
                [line |-> "", value |-> None, exit |-> 101, get |-> g.res]
           [] OTHER ->
                [line |-> "Key not found", value |-> None, exit |-> 0, get |-> g.res]

\* A `kvs get <key>` process in the store directory: open, get, print, exit.
\* It runs when no other engine is open on the directory, and its engine
\* ends with the process.
CliGet(key, fail) ==
    /\ LET o == open(disk)
           g == get(o.disk, o.store, key, fail)
       IN /\ disk' = o.disk
          /\ created' = created \o Stamp(o.made, nops + 1, "open")
          /\ cli' = GetOutput(o.res, g)
          /\ ret' = Result("kvs get", key, IF o.res = "Ok" THEN g.res ELSE o.res, g.value)
    /\ store' = NoStore
    /\ nops' = nops + 1
    /\ UNCHANGED kv

\* The operations of a run none of whose I/O fails.
Set == nops < MaxOps /\ \E key \in Keys, value \in Values : SetOp(key, value, "none")
Get == nops < MaxOps /\ \E key \in Keys : GetOp(key, "none")
Remove == nops < MaxOps /\ \E key \in Keys : RemoveOp(key, "none")
Compact == nops < MaxOps /\ CompactOp("none")
Open == nops < MaxOps /\ Reopen

Next == Set \/ Get \/ Remove \/ Compact \/ Open

Spec == Init /\ [][Next]_vars

\* The I/O steps that can fail in set and in compact: the append of the
\* record, the creation of the new active segment, the creation of the
\* compaction segment, the copy of the last live entry, the deletion of the
\* first stale file.
CompactFailures == {"active", "compaction", "copy", "remove_file"}
SetFailures == {"write"} \cup CompactFailures

\* The operations of a run any of whose I/O may fail.
SetIO ==
    /\ nops < MaxOpsIO
    /\ \E key \in Keys, value \in Values, fail \in SetFailures \cup {"none"} :
          SetOp(key, value, fail)
GetIO == nops < MaxOpsIO /\ \E key \in Keys, fail \in {"none", "read"} : GetOp(key, fail)
RemoveIO ==
    nops < MaxOpsIO /\ \E key \in Keys, fail \in {"none", "write"} : RemoveOp(key, fail)
CompactIO == nops < MaxOpsIO /\ \E fail \in CompactFailures \cup {"none"} : CompactOp(fail)
OpenIO == nops < MaxOpsIO /\ Reopen
KvsGet == nops < MaxOpsIO /\ \E key \in Keys, fail \in {"none", "read"} : CliGet(key, fail)

NextIO == SetIO \/ GetIO \/ RemoveIO \/ CompactIO \/ OpenIO \/ KvsGet

SpecIO == Init /\ [][NextIO]_vars

\* The process that owns the engine ends, and segment id is left cut n bytes
\* into its i-th record (a crash in the middle of an append, or a damaged
\* file).
CutAt(id, i, n) ==
    /\ disk[id][i].cmd # "Raw"
    /\ disk' = [disk EXCEPT ![id] = SubSeq(@, 1, i - 1) \o <<RawBytes(n)>>]
    /\ store' = NoStore
    /\ ret' = Result("cut", "", "Ok", None)
    /\ nops' = nops + 1
    /\ UNCHANGED <<kv, created, cli>>

\* The operations of a run in which segments may be cut.
SetCut ==
    nops < MaxOpsCut /\ \E key \in Keys, value \in Values : SetOp(key, value, "none")
RemoveCut == nops < MaxOpsCut /\ \E key \in Keys : RemoveOp(key, "none")
CompactCut == nops < MaxOpsCut /\ CompactOp("none")
OpenCut == nops < MaxOpsCut /\ Reopen
Cut ==
    /\ nops < MaxOpsCut
    /\ \E id \in DOMAIN disk : \E i \in 1..Len(disk[id]) :
          \E n \in {1, EncLen(disk[id][i]) - 1} : CutAt(id, i, n)

NextCut == SetCut \/ RemoveCut \/ CompactCut \/ OpenCut \/ Cut

SpecCut == Init /\ [][NextCut]_vars

\* ---------------------------------------------------------- observations

\* What store.get(key) returns in the current state.
Lookup(key) == get(disk, store, key, "none")
ObservedIn(d, s, key) ==
    [res |-> get(d, s, key, "none").res, value |-> get(d, s, key, "none").value]
Observed(key) == ObservedIn(disk, store, key)

\* Compactions of the directory's lifetime: compact creates the new active
\* segment and then the compaction segment, whose id is one less.
Compactions ==
    Cardinality({i \in 1..(Len(created) - 1) :
        created[i + 1].op = created[i].op /\ created[i + 1].id = created[i].id - 1})

Segments == DOMAIN disk

RECURSIVE SumOver(_, _)
SumOver(S, f) ==
    IF S = {} THEN 0
    ELSE LET x == CHOOSE y \in S : TRUE IN f[x] + SumOver(S \ {x}, f)

\* Bytes in all segment files, and bytes of the records the index refers to.
TotalBytes == SumOver(Segments, [id \in Segments |-> FileLen(disk[id])])
LiveBytes ==
    SumOver(DOMAIN store.index, [k \in DOMAIN store.index |-> store.index[k].len])

\* Some segment holds a Remove record of key.
RemoveRecordOf(key) ==
    \E id \in Segments : \E i \in 1..Len(disk[id]) :
        disk[id][i].cmd = "Remove" /\ disk[id][i].key = key

NoRemoveRecords == \A key \in Keys : ~RemoveRecordOf(key)

\* ------------------------------------------------------------- the claims

\* C1: after any sequence of successful set, remove and get operations
\* (compactions and reopens included), get(k) returns what the abstract map
\* holds for k: Some(v) of the latest set(k, v) not followed by remove(k),
\* None otherwise; and every get that ran returned that.
C1_GetRefinesMap ==
    Opened =>
       /\ \A k \in Keys : Observed(k) = [res |-> "Ok", value |-> kv[k]]
       /\ ret.op = "get" => ret.res = "Ok" /\ ret.value = kv[ret.key]

C1_Witness ==
    /\ ret.op = "get" /\ ret.res = "Ok" /\ ret.value # None
    /\ \E i \in 1..Len(created) : created[i].by = "set"
    /\ store.index[ret.key].file_id = store.current_id - 1
    /\ \E k \in Keys : kv[k] = None

\* C2: reopening the engine on the same directory gives every key the get
\* result it had immediately before the close.
C2_Durability ==
    [][ret'.op = "open" => \A k \in Keys : Observed(k)' = Observed(k)]_vars

C2_Witness ==
    /\ ret.op = "open" /\ nops > 0
    /\ Compactions >= 1
    /\ \E k \in Keys : kv[k] # None /\ store.index[k].file_id < store.current_id - 1
    /\ \E k \in Keys : kv[k] = None /\ RemoveRecordOf(k)

\* C3: remove(k) of a key in the index succeeds and get(k) is absent
\* afterwards; remove(k) of a key not in the index fails with KeyNotFound
\* and changes neither the segments nor the engine.
C3_Remove ==
    [][ret'.op = "remove" =>
          IF ret'.key \in DOMAIN store.index
          THEN /\ ret'.res = "Ok"
               /\ ret'.key \notin DOMAIN store'.index
               /\ ObservedIn(disk', store', ret'.key) = [res |-> "Ok", value |-> None]
          ELSE /\ ret'.res = "KeyNotFound"
               /\ disk' = disk
               /\ store' = store]_vars

C3_Witness ==
    /\ ret.op = "remove" /\ ret.res = "KeyNotFound"
    /\ RemoveRecordOf(ret.key)
    /\ DOMAIN store.index # {}

\* C4 as claimed: every segment id created is strictly greater than every
\* segment id created before it.
C4_StrictlyIncreasing ==
    \A i, j \in 1..Len(created) : i < j => created[i].id < created[j].id

\* C4 as amended: no id is used for two segment creations, and every id an
\* operation creates is strictly greater than every id created by an
\* earlier operation (compact creates c+2 before c+1).
C4_FreshIds ==
    \A i, j \in 1..Len(created) :
        i < j => /\ created[i].id # created[j].id
                 /\ created[i].op < created[j].op => created[i].id < created[j].id

C4_Witness ==
    /\ Compactions >= 2
    /\ \E i \in 1..Len(created) : created[i].by = "set"
    /\ ret.op = "open" /\ nops > 0

C6_ReadersAreSegments ==
    Opened =>
       /\ DOMAIN store.readers = Segments
       /\ store.current_id \in DOMAIN store.readers
       /\ store.curren_writer.file = store.current_id

C6_Witness ==
    /\ Opened
    /\ Compactions >= 1
    /\ Cardinality(Segments) >= 3
    /\ ret.op = "set"

\* C7: uncompacted is the number of bytes in the segments that do not
\* belong to the record of a live index entry.
C7_UncompactedIsDeadBytes ==
    Opened => store.uncompacted = TotalBytes - LiveBytes

\* C8: after every successful set on a store whose segments hold no Remove
\* record (as of any workload of set operations alone), the segment files
\* together are at most the live records plus the compaction threshold.
C8_DiskBound ==
    ret.op = "set" /\ ret.res = "Ok" /\ NoRemoveRecords =>
       TotalBytes <= LiveBytes + COMPACTION_THRESHOLD

C8_Witness ==
    /\ ret.op = "set" /\ ret.res = "Ok" /\ NoRemoveRecords
    /\ Compactions >= 1
    /\ DOMAIN store.index = Keys
    /\ TotalBytes = LiveBytes + COMPACTION_THRESHOLD

\* C9: when set, remove or compact returns an error, the index and what
\* get returns for every key are as before the operation.
C9_AllOrNothing ==
    [][ret'.op \in {"set", "remove", "compact"} /\ ret'.res # "Ok" =>
          /\ store'.index = store.index
          /\ \A k \in Keys : Observed(k)' = Observed(k)]_vars

\* C10: `kvs get` prints "Key not found" and exits 0 only when the key is
\* absent; when store.get fails it exits non-zero and does not print
\* "Key not found".
C10_GetErrorReported ==
    ret.op = "kvs get" =>
       /\ cli.line = "Key not found" /\ cli.exit = 0 => cli.get = "Ok" /\ kv[ret.key] = None
       /\ cli.get \notin {"Ok", ""} => cli.exit # 0 /\ cli.line # "Key not found"

\* Some segment holds bytes that do not decode to a record.
Undecodable ==
    \E id \in Segments : \E i \in 1..Len(disk[id]) : disk[id][i].cmd = "Raw"

\* C11: open fails and returns no engine whenever a segment holds a record
\* that cannot be decoded, and leaves the segment as it is; when every
\* segment ends at a record boundary (empty segments included) open
\* succeeds.
C11_OpenFailsOnBadRecord ==
    ret.op = "open" =>
       IF Undecodable
       THEN ret.res = "Serde" /\ store = NoStore
       ELSE ret.res = "Ok" /\ Opened

C11_Witness ==
    /\ ret.op = "open" /\ ret.res = "Serde"
    /\ \E id \in Segments :
          /\ Len(disk[id]) >= 2
          /\ disk[id][Len(disk[id])] = RawBytes(EncLen(SetCmd("a", Small)) - 1)
    /\ \E id \in Segments : disk[id] = <<>>

\* What uncompacted is in set(key, _) once the superseded entry is added.
AfterSupersede(key) ==
    store.uncompacted +
        (IF key \in DOMAIN store.index THEN store.index[key].len ELSE 0)

\* C12: a set runs compaction exactly when uncompacted, with the superseded
\* entry's length added, is strictly greater than 1,048,576; a set that
\* leaves it at or below the threshold creates and deletes no segment; and
\* uncompacted is at most the threshold after every successful set.
C12_CompactionIffOverThreshold ==
    [][ret'.op = "set" =>
          /\ COMPACTION_THRESHOLD = 1048576
          /\ ret'.res = "Ok"
          /\ IF AfterSupersede(ret'.key) > 1048576
             THEN /\ Len(created') = Len(created) + 2
                  /\ store'.current_id = store.current_id + 2
                  /\ store'.uncompacted = 0
             ELSE /\ created' = created
                  /\ DOMAIN disk' = DOMAIN disk
                  /\ store'.current_id = store.current_id
                  /\ store'.uncompacted = AfterSupersede(ret'.key)
          /\ store'.uncompacted <= 1048576]_vars

C12_Witness ==
    /\ ret.op = "set" /\ ret.res = "Ok"
    /\ store.uncompacted = 1048576
    /\ Compactions >= 1

\* The step ran KvStore::compact to its end, directly or from a set.
CompactionStep ==
    /\ ret'.op \in {"set", "compact"} /\ ret'.res = "Ok"
    /\ Len(created') = Len(created) + 2

\* The first byte after key's index entry in state s.
EndOf(s, key) == s.index[key].pos + s.index[key].len

\* What a compaction run from current_id = c leaves in directory d and
\* engine s.
CompactedFrom(c, d, s) ==
    /\ s.uncompacted = 0
    /\ s.current_id = c + 2
    /\ DOMAIN d = {c + 1, c + 2}
    /\ DOMAIN s.readers = {c + 1, c + 2}
    /\ \A id \in DOMAIN d : id >= c + 1
    /\ \A k \in DOMAIN s.index : s.index[k].file_id = c + 1
    /\ \A k1, k2 \in DOMAIN s.index :
          k1 # k2 => \/ EndOf(s, k1) <= s.index[k2].pos
                     \/ EndOf(s, k2) <= s.index[k1].pos
    /\ \A k \in DOMAIN s.index :
          s.index[k].len > 0 /\ EndOf(s, k) <= FileLen(d[c + 1])
    /\ SumOver(DOMAIN s.index, [k \in DOMAIN s.index |-> s.index[k].len])
          = FileLen(d[c + 1])
    /\ d[c + 2] = <<>>

EntryBytes(d, s, key) ==
    TakeAt(FileOf(d, s.index[key].file_id), s.index[key].pos, s.index[key].len)

\* key's entry refers to the same record, with the same length, in the
\* state before and in the state after the step.
EntryKept(key) ==
    /\ key \in DOMAIN store.index
    /\ EntryBytes(disk', store', key) = EntryBytes(disk, store, key)
    /\ store'.index[key].len = store.index[key].len

\* C14: compact, run directly or from a set, leaves the index's key set
\* unchanged, and every entry refers afterwards to a Set record of the same
\* key and value, and of the same length, as before; for the compaction a
\* set runs, "before" is the index as that set has just updated it.
C14_CompactionKeepsRecords ==
    [][CompactionStep =>
          /\ \A k \in DOMAIN store'.index :
                /\ Len(EntryBytes(disk', store', k)) = 1
                /\ EntryBytes(disk', store', k)[1].cmd = "Set"
                /\ EntryBytes(disk', store', k)[1].key = k
          /\ IF ret'.op = "compact"
             THEN /\ DOMAIN store'.index = DOMAIN store.index
                  /\ \A k \in DOMAIN store'.index : EntryKept(k)
             ELSE /\ DOMAIN store'.index = DOMAIN store.index \cup {ret'.key}
                  /\ \A k \in DOMAIN store'.index \ {ret'.key} : EntryKept(k)
                  /\ EntryBytes(disk', store', ret'.key)
                        = <<SetCmd(ret'.key, kv'[ret'.key][1])>>
                  /\ store'.index[ret'.key].len
                        = EncLen(SetCmd(ret'.key, kv'[ret'.key][1]))]_vars

\* A compaction has just copied the entries of two keys with different
\* values, one of them to a nonzero offset of the compaction segment.
C14_Witness ==
    /\ ret.op \in {"set", "compact"} /\ ret.res = "Ok"
    /\ created[Len(created)].op = nops
    /\ DOMAIN store.index = Keys
    /\ \E k \in Keys : store.index[k].pos > 0
    /\ kv["a"] # kv["b"]

\* The ids of the compaction segments among the creations cr: compact
\* creates the new active segment and then the compaction segment.
CompactionIds(cr) ==
    {cr[i + 1].id : i \in {j \in 1..(Len(cr) - 1) :
        cr[j + 1].op = cr[j].op /\ cr[j].by \in {"set", "compact"}}}

\* What get(key) returns from the engine a new open of directory d builds.
Recovered(d, key) == ObservedIn(open(d).disk, open(d).store, key)

\* C15: compact gives the compaction segment the id current_id + 1 and the
\* new active segment the id current_id + 2; every record written later goes
\* to a segment with an id above every compaction segment's, so recovery,
\* which goes through the segments in ascending id order, reads a
\* compaction segment before the records written after it, and an open at
\* any later point recovers the latest value of every key.
C15_CompactionSegmentIsOlder ==
    [][/\ CompactionStep =>
             /\ created'[Len(created) + 1].id = store.current_id + 2
             /\ created'[Len(created) + 2].id = store.current_id + 1
             /\ store'.curren_writer.file = store.current_id + 2
             /\ store'.current_id = store.current_id + 2
       /\ (ret'.op \in {"set", "remove"} /\ ret'.res = "Ok") =>
             /\ store.curren_writer.file = store.current_id
             /\ \A m \in CompactionIds(created) : m < store.curren_writer.file
       /\ CompactionIds(created') # {} =>
             /\ \A m \in CompactionIds(created') \cap DOMAIN disk' :
                   \A i, j \in 1..Len(generate_id(disk')) :
                      /\ generate_id(disk')[i] = m
                      /\ generate_id(disk')[j] > m
                      => i < j
             /\ open(disk').res = "Ok"
             /\ \A k \in Keys :
                   Recovered(disk', k) = [res |-> "Ok", value |-> kv'[k]]]_vars

\* An open has just recovered a key from a compaction segment and from a
\* record of another value written to a later segment.
C15_Witness ==
    /\ ret.op = "open" /\ ret.res = "Ok"
    /\ \E m \in CompactionIds(created) \cap Segments : \E id \in Segments :
          /\ id > m
          /\ \E i \in 1..Len(disk[m]) : \E j \in 1..Len(disk[id]) :
                /\ disk[m][i].key = disk[id][j].key
                /\ disk[m][i].cmd = "Set" /\ disk[id][j].cmd = "Set"
                /\ disk[m][i].value # disk[id][j].value
                /\ Observed(disk[m][i].key) =
                      [res |-> "Ok", value |-> Some(disk[id][j].value)]

\* Bytes of the segments that no index entry refers to.
DeadBytes == TotalBytes - LiveBytes

\* C16: a successful remove(k) adds to uncompacted exactly the length of the
\* index entry it removes, and not the length of the Remove record it
\* appends; and no byte is counted twice over set, remove and reopen: a set
\* adds exactly the bytes that it makes dead, a remove exactly the bytes
\* that it makes dead less its own record, and uncompacted never exceeds
\* the dead bytes on disk.
C16_RemoveAccounting ==
    [][/\ (ret'.op = "remove" /\ ret'.res = "Ok") =>
             /\ ret'.key \in DOMAIN store.index
             /\ store'.uncompacted = store.uncompacted + store.index[ret'.key].len
             /\ DeadBytes' - DeadBytes =
                   store.index[ret'.key].len + EncLen(RemoveCmd(ret'.key))
       /\ (ret'.op = "set" /\ ret'.res = "Ok" /\ created' = created) =>
             store'.uncompacted - store.uncompacted = DeadBytes' - DeadBytes
       /\ Opened' => store'.uncompacted <= DeadBytes']_vars

\* A remove has just succeeded after a reopen that counted an earlier
\* Remove record.
C16_Witness ==
    /\ ret.op = "remove" /\ ret.res = "Ok"
    /\ store.uncompacted > 0
    /\ store.uncompacted < DeadBytes
    /\ \E id \in Segments :
          /\ id < store.current_id
          /\ \E i \in 1..Len(disk[id]) : disk[id][i].cmd = "Remove"

\* The places <<segment id, record number>> of the records of key, and
\* whether p is the last of them in ascending (segment id, offset) order.
PlacesOf(key) ==
    {p \in UNION {{<<id, i>> : i \in 1..Len(disk[id])} : id \in Segments} :
        disk[p[1]][p[2]].key = key}
IsLast(p, key) ==
    \A q \in PlacesOf(key) : q[1] < p[1] \/ (q[1] = p[1] /\ q[2] <= p[2])
LastIsSet(key) ==
    \E p \in PlacesOf(key) : IsLast(p, key) /\ disk[p[1]][p[2]].cmd = "Set"

\* C17: right after a successful open, uncompacted is the byte length of
\* all records of all segments less the byte length of the records the
\* index refers to, and the index holds exactly the keys whose last record,
\* in ascending (segment id, offset) order, is a Set.
C17_RecoveredAccounting ==
    (ret.op = "open" /\ ret.res = "Ok") =>
       /\ store.uncompacted = TotalBytes - LiveBytes
       /\ DOMAIN store.index = {k \in Keys : LastIsSet(k)}
       /\ \A k \in DOMAIN store.index :
             \E p \in PlacesOf(k) :
                /\ IsLast(p, k)
                /\ store.index[k] = CommandPos(p[1], StartOf(disk[p[1]], p[2]),
                                               EncLen(disk[p[1]][p[2]]))

\* An open has just recovered at least two segments that hold records, a
\* Remove record among them, counted dead bytes and found a live key.
C17_Witness ==
    /\ ret.op = "open" /\ ret.res = "Ok"
    /\ Cardinality({id \in Segments : disk[id] # <<>>}) >= 2
    /\ store.uncompacted >=
          2 * EncLen(SetCmd("a", Small)) + EncLen(RemoveCmd("a"))
    /\ \E k \in Keys : RemoveRecordOf(k)
    /\ store.index # EmptyMap

\* Directory d2 is d1 with record cmd appended to segment id.
AppendedTo(d1, d2, id, cmd) ==
    /\ id \in DOMAIN d1
    /\ d2 = [d1 EXCEPT ![id] = d1[id] \o <<cmd>>]

\* C18: segments are append-only and only compact deletes them. A get
\* changes neither index, uncompacted, current_id nor any segment; a set
\* that runs no compaction and a remove append exactly one record to the
\* active segment and change nothing else on disk; an open creates exactly
\* one new, empty segment and changes or deletes no other.
C18_AppendOnly ==
    [][/\ ret'.op = "get" =>
             /\ disk' = disk
             /\ store'.index = store.index
             /\ store'.uncompacted = store.uncompacted
             /\ store'.current_id = store.current_id
       /\ (ret'.op = "set" /\ ret'.res = "Ok" /\ created' = created) =>
             AppendedTo(disk, disk', store.current_id,
                        SetCmd(ret'.key, kv'[ret'.key][1]))
       /\ (ret'.op = "remove" /\ ret'.res = "Ok") =>
             AppendedTo(disk, disk', store.current_id, RemoveCmd(ret'.key))
       /\ (ret'.op = "remove" /\ ret'.res # "Ok") => disk' = disk
       /\ (ret'.op = "open" /\ ret'.res = "Ok") =>
             /\ DOMAIN disk' = DOMAIN disk \cup {store'.current_id}
             /\ store'.current_id \notin DOMAIN disk
             /\ disk'[store'.current_id] = <<>>
             /\ \A id \in DOMAIN disk : disk'[id] = disk[id]
       /\ ~(DOMAIN disk \subseteq DOMAIN disk') => CompactionStep
       /\ \A id \in DOMAIN disk \cap DOMAIN disk' :
             /\ Len(disk'[id]) >= Len(disk[id])
             /\ SubSeq(disk'[id], 1, Len(disk[id])) = disk[id]]_vars

\* A remove has just appended its record to an active segment that already
\* held records, in a directory of several segments with records.
C18_Witness ==
    /\ ret.op = "remove" /\ ret.res = "Ok"
    /\ Len(disk[store.current_id]) >= 2
    /\ disk[store.current_id][Len(disk[store.current_id])] = RemoveCmd(ret.key)
    /\ \E id \in Segments : id < store.current_id /\ disk[id] # <<>>

====
